---- MODULE Spec2Model ----
(***************************************************************************)
(* Model of backuper.py: key naming (format_str / format_re), the dump and *)
(* promotion loop of Backuper.create_dump, Backuper.house_keeping and      *)
(* Backuper.backup_status, driven by main().                               *)
(*                                                                         *)
(* Object names are strings; str.startswith, str.format and the regular    *)
(* expression format_re are computed character by character.  Instants are *)
(* seconds on one clock (the host is taken to run in UTC, as the object    *)
(* store does).                                                            *)
(***************************************************************************)
EXTENDS Integers, Sequences, FiniteSets, TLC

(***************************************************************************)
(* Bounds of the model.                                                    *)
(***************************************************************************)
MaxConns == 2
MaxObjects == 3
MaxRuns == 2

(***************************************************************************)
(* Characters and strings.                                                 *)
(***************************************************************************)
\* The characters that occur in object names, in ASCII order.
Alphabet ==
    << "-", ".", "/",
       "0", "1", "2", "3", "4", "5", "6", "7", "8", "9",
       "_",
       "a", "b", "c", "d", "e", "f", "g", "h", "i", "j", "k", "l", "m",
       "n", "o", "p", "q", "r", "s", "t", "u", "v", "w", "x", "y", "z" >>

\* The i-th character of s, as a string of length 1.
Char(s, i) == SubSeq(s, i, i)

Code(c) == CHOOSE i \in 1..Len(Alphabet) : Alphabet[i] = c

\* Python's str comparison: lexicographic by character code, a proper
\* prefix sorting first.
RECURSIVE StrLess(_, _)
StrLess(a, b) ==
    IF b = "" THEN FALSE
    ELSE IF a = "" THEN TRUE
    ELSE IF Head(a) = Head(b) THEN StrLess(Tail(a), Tail(b))
    ELSE Code(Head(a)) < Code(Head(b))

\* str.startswith
startswith(s, prefix) ==
    /\ Len(prefix) <= Len(s)
    /\ SubSeq(s, 1, Len(prefix)) = prefix

\* str.endswith
endswith(s, suffix) ==
    /\ Len(suffix) <= Len(s)
    /\ SubSeq(s, Len(s) - Len(suffix) + 1, Len(s)) = suffix

\* Zero-padded decimal of n on `width` digits (strftime's numeric fields).
RECURSIVE Pad(_, _)
Pad(n, width) ==
    IF width = 0 THEN ""
    ELSE Pad(n \div 10, width - 1) \o Alphabet[Code("0") + (n % 10)]

\* Class attributes of Backuper.
backups_hourly_path == "hourly"
backups_daily_path == "daily"
backups_monthly_path == "monthly"
backups_yearly_path == "yearly"
SqlGz == ".sql.gz"

\* format_str.format(frequency=..., folder=..., database=..., timestamp=...)
\*   '{frequency}/{folder}/{database}_{timestamp}.sql.gz'
format_str(frequency, folder, database, timestamp) ==
    frequency \o "/" \o folder \o "/" \o database \o "_" \o timestamp \o SqlGz

\* Index of the first character of s at or after position `from` that lies
\* in `stops`; Len(s) + 1 when there is none.
FirstOf(s, from, stops) ==
    IF \E i \in from..Len(s) : Char(s, i) \in stops
    THEN CHOOSE i \in from..Len(s) :
             /\ Char(s, i) \in stops
             /\ \A j \in from..(i - 1) : Char(s, j) \notin stops
    ELSE Len(s) + 1

NoMatch == [matched |-> FALSE, frequency |-> "", folder |-> "",
            database |-> "", timestamp |-> ""]

\* format_re.match(name):
\*   ^(?P<frequency>[^/]+)/(?P<folder>[^/]+)/(?P<database>[^/_]+)_
\*    (?P<timestamp>.+)\.sql\.gz$
\* [^/]+ followed by "/" can only end at the next "/"; [^/_]+ followed by "_"
\* can only end at the next "/" or "_", which must be "_"; .+ takes the rest
\* up to the final ".sql.gz" and must not be empty.
format_re(name) ==
    LET i1 == FirstOf(name, 1, {"/"})
        i2 == FirstOf(name, i1 + 1, {"/"})
        i3 == FirstOf(name, i2 + 1, {"/", "_"})
    IN  IF /\ i1 > 1 /\ i1 <= Len(name)
           /\ i2 > i1 + 1 /\ i2 <= Len(name)
           /\ i3 > i2 + 1 /\ i3 <= Len(name) /\ Char(name, i3) = "_"
           /\ Len(name) - i3 > Len(SqlGz)
           /\ endswith(name, SqlGz)
        THEN [matched |-> TRUE,
              frequency |-> SubSeq(name, 1, i1 - 1),
              folder |-> SubSeq(name, i1 + 1, i2 - 1),
              database |-> SubSeq(name, i2 + 1, i3 - 1),
              timestamp |-> SubSeq(name, i3 + 1, Len(name) - Len(SqlGz))]
        ELSE NoMatch

(***************************************************************************)
(* Instants.                                                               *)
(***************************************************************************)
\* Days from 1970-01-01 to the civil date y-m-d (proleptic Gregorian), as
\* datetime subtraction counts them.
DaysFromCivil(y, m, d) ==
    LET yy == IF m <= 2 THEN y - 1 ELSE y
        era == yy \div 400
        yoe == yy - era * 400
        mp == IF m > 2 THEN m - 3 ELSE m + 9
        doy == (153 * mp + 2) \div 5 + d - 1
        doe == yoe * 365 + yoe \div 4 - yoe \div 100 + doy
    IN  era * 146097 + doe - 719468

\* Seconds from 1970-01-01T00:00:00 to the datetime dt.
Seconds(dt) ==
    DaysFromCivil(dt.year, dt.month, dt.day) * 86400
        + dt.hour * 3600 + dt.minute * 60 + dt.second

\* datetime.strftime(fmt); fmt is a sequence of directives and literals.
RECURSIVE strftime(_, _)
strftime(dt, fmt) ==
    IF fmt = <<>> THEN ""
    ELSE (CASE Head(fmt) = "%Y" -> Pad(dt.year, 4)
            [] Head(fmt) = "%m" -> Pad(dt.month, 2)
            [] Head(fmt) = "%d" -> Pad(dt.day, 2)
            [] Head(fmt) = "%H" -> Pad(dt.hour, 2)
            [] Head(fmt) = "%M" -> Pad(dt.minute, 2)
            [] Head(fmt) = "%S" -> Pad(dt.second, 2)
            [] OTHER -> Head(fmt))
         \o strftime(dt, Tail(fmt))

(***************************************************************************)
(* Settings.                                                               *)
(***************************************************************************)
DefaultHoursToKeep == 48
DefaultDaysToKeep == 7
DefaultMonthsToKeep == 24

\* A Python value that is either a number or a str (only its type matters
\* for a str).
Number(n) == [str |-> FALSE, num |-> n]
Str == [str |-> TRUE, num |-> 0]

\* RackspaceStoredSettings.setting(name, default): os.environ.get(name,
\* default); a variable of the process environment is a str.
setting(env, name, default) ==
    IF name \in env THEN Str ELSE Number(default)

\* value * n for an int n: a str repeated n times is still a str.
Times(value, n) ==
    IF value.str THEN Str ELSE Number(value.num * n)

\* x > value for a number x, as Python 2 orders mixed types: every number
\* sorts before every str.
GreaterThan(x, value) ==
    IF value.str THEN FALSE ELSE x > value.num

(***************************************************************************)
(* The object store (the container `backups`): a function from object name *)
(* to [last_modified, data].                                               *)
(***************************************************************************)
\* cloudfiles.create_object / copy_object: the object at `name` now holds
\* `data`, last modified at instant `at`.
StorePut(st, name, data, at) ==
    [n \in DOMAIN st \cup {name} |->
        IF n = name THEN [last_modified |-> at, data |-> data] ELSE st[n]]

\* obj.delete()
StoreDelete(st, name) ==
    [n \in DOMAIN st \ {name} |-> st[n]]

\* The least name of a non-empty set of names.
MinName(names) ==
    CHOOSE n \in names : \A m \in names : m = n \/ StrLess(n, m)

\* cloudfiles.list_container_objects(container): the objects in name order.
RECURSIVE ListNames(_)
ListNames(names) ==
    IF names = {} THEN <<>>
    ELSE LET n == MinName(names) IN << n >> \o ListNames(names \ {n})

list_container_objects(st) ==
    LET names == ListNames(DOMAIN st)
    IN  [i \in 1..Len(names) |->
            [name |-> names[i], last_modified |-> st[names[i]].last_modified]]

\* A get_backup_objects that lists every object, whatever the prefix.
get_backup_objects_no_prefix(st, at, prefix) ==
    LET objects == list_container_objects(st)
    IN  [i \in 1..Len(objects) |->
            [name |-> objects[i].name,
             last_modified_timestamp |-> objects[i].last_modified,
             last_modified_timedelta |-> at - objects[i].last_modified]]

\* Backuper.get_backup_objects(prefix): the listed objects whose name starts
\* with prefix (all of them for an empty prefix), each with its age
\* now - last_modified.
get_backup_objects(st, at, prefix) ==
    LET Keep(obj) == prefix = "" \/ startswith(obj.name, prefix)
        objects == SelectSeq(list_container_objects(st), Keep)
    IN  [i \in 1..Len(objects) |->
            [name |-> objects[i].name,
             last_modified_timestamp |-> objects[i].last_modified,
             last_modified_timedelta |-> at - objects[i].last_modified]]

(***************************************************************************)
(* create_dump: the names of the four objects.                             *)
(***************************************************************************)
\* The dict literal of create_dump: attribute -> strftime format.
FilenameFormats ==
    << [path |-> backups_hourly_path,
        strftime_format |-> << "%Y", "-", "%m", "-", "%d", "-", "%H", "%M", "%S" >>],
       [path |-> backups_daily_path,
        strftime_format |-> << "%Y", "-", "%m", "-", "%d" >>],
       [path |-> backups_monthly_path,
        strftime_format |-> << "%Y", "-", "%m" >>],
       [path |-> backups_yearly_path,
        strftime_format |-> << "%Y" >>] >>

\* The orders in which dict.items() may yield the four entries: Python 2
\* leaves the order of a dict to the implementation and its hash function.
DictOrders ==
    {o \in [1..4 -> 1..4] : \A i, j \in 1..4 : o[i] = o[j] => i = j}

\* filenames of create_dump: one name per dict item, in the dict's order.
create_dump_filenames(order, dt, connection) ==
    [i \in 1..4 |->
        format_str(FilenameFormats[order[i]].path,
                   connection.FOLDER,
                   connection.NAME,
                   strftime(dt, FilenameFormats[order[i]].strftime_format))]

(***************************************************************************)
(* house_keeping: the three inspected tiers.                               *)
(***************************************************************************)
HouseKeepingPaths ==
    << backups_hourly_path, backups_daily_path, backups_monthly_path >>

\* timedelta.total_seconds() and timedelta.days
total_seconds(td) == td
days(td) == td \div 86400

\* The test of house_keeping's tier-th loop on an object.
IsOld(env, tier, obj) ==
    CASE tier = 1 ->
           GreaterThan((total_seconds(obj.last_modified_timedelta) \div 60) \div 60,
                       setting(env, "hours_to_keep", DefaultHoursToKeep))
      [] tier = 2 ->
           GreaterThan(days(obj.last_modified_timedelta),
                       setting(env, "days_to_keep", DefaultDaysToKeep))
      [] tier = 3 ->
           GreaterThan(days(obj.last_modified_timedelta),
                       Times(setting(env, "months_to_keep", DefaultMonthsToKeep), 30))

(***************************************************************************)
(* backup_status.                                                          *)
(***************************************************************************)
\* list.sort(key=last_modified_timestamp, reverse=True): stable, so equal
\* timestamps keep their order.
RECURSIVE InsertDescending(_, _)
InsertDescending(sorted, obj) ==
    IF sorted = <<>> THEN << obj >>
    ELSE IF Head(sorted).last_modified_timestamp >= obj.last_modified_timestamp
         THEN << Head(sorted) >> \o InsertDescending(Tail(sorted), obj)
         ELSE << obj >> \o sorted

\* A sort that puts the oldest first.
RECURSIVE InsertAscending(_, _)
InsertAscending(sorted, obj) ==
    IF sorted = <<>> THEN << obj >>
    ELSE IF Head(sorted).last_modified_timestamp <= obj.last_modified_timestamp
         THEN << Head(sorted) >> \o InsertAscending(Tail(sorted), obj)
         ELSE << obj >> \o sorted

RECURSIVE SortOldestFirst(_)
SortOldestFirst(seq) ==
    IF seq = <<>> THEN <<>>
    ELSE InsertAscending(SortOldestFirst(SubSeq(seq, 1, Len(seq) - 1)), seq[Len(seq)])

RECURSIVE SortNewestFirst(_)
SortNewestFirst(seq) ==
    IF seq = <<>> THEN <<>>
    ELSE InsertDescending(SortNewestFirst(SubSeq(seq, 1, Len(seq) - 1)), seq[Len(seq)])

\* get_key_name(obj): folder + '/' + database, or None ("" here, which the
\* caller's `if key_name` treats alike).
get_key_name(obj) ==
    LET match == format_re(obj.name)
    IN  IF match.matched THEN match.folder \o "/" \o match.database ELSE ""

\* get_frequency(obj)
get_frequency(obj) == format_re(obj.name).frequency

\* Backuper.backup_status(): for every key name, a dict with the list
\* 'objects' and one list per frequency, each sorted newest first.
backup_status(st, at) ==
    LET objects == get_backup_objects(st, at, "")
        Named(obj) == get_key_name(obj) # ""
        key_names == {get_key_name(objects[i]) : i \in {j \in 1..Len(objects) : Named(objects[j])}}
    IN  [key_name \in key_names |->
            LET InGroup(obj) == get_key_name(obj) = key_name
                group == SelectSeq(objects, InGroup)
                frequencies == {get_frequency(group[i]) : i \in 1..Len(group)}
            IN  [k \in {"objects"} \cup frequencies |->
                    LET OfFrequency(obj) == get_frequency(obj) = k
                    IN  IF k = "objects" THEN SortNewestFirst(group)
                        ELSE SortNewestFirst(SelectSeq(group, OfFrequency))]]

(***************************************************************************)
(* The program state.                                                      *)
(***************************************************************************)
VARIABLES
    overwrite,      \* Backuper.overwrite (--overwrite)
    dry_run,        \* Backuper.dry_run (--dry-run)
    now,            \* Backuper.now, taken once at construction
    dict_order,     \* the order in which create_dump's dict yields its items
    connections,    \* Backuper.connections: a list of [FOLDER, NAME]
    environ,        \* the names set in the process environment
    store,          \* the objects of the container
    pc,             \* the position of main()
    ci,             \* main's loop over connections: index of the current one
    filenames,      \* create_dump's filenames
    fi,             \* create_dump's loop over filenames[1:]: current index
    dump,           \* the content of temp_gzip_file
    tier,           \* house_keeping: which of its three loops runs
    pending,        \* house_keeping: the listed objects not yet inspected
    status,         \* the value backup_status returned
    log,            \* history: the external calls issued in this run, in order
    store0,         \* history: the store when this run started
    run             \* history: the number of this run

vars == << overwrite, dry_run, now, dict_order, connections, environ, store,
           pc, ci, filenames, fi, dump, tier, pending, status, log, store0, run >>

NoData == [run |-> 0, conn |-> 0]
NoStatus == [key_name \in {} |-> <<>>]

Call(op, src, dst, ok) == [op |-> op, src |-> src, dst |-> dst, ok |-> ok]

\* The instants at which a run may start.
Now0 == [year |-> 2024, month |-> 3, day |-> 1, hour |-> 5, minute |-> 30, second |-> 0]
Nows ==
    { Now0,
      [year |-> 2024, month |-> 3, day |-> 1, hour |-> 6, minute |-> 30, second |-> 0],
      [year |-> 2024, month |-> 3, day |-> 4, hour |-> 5, minute |-> 30, second |-> 0] }

\* The configured databases the runs draw from.
ConnectionPool ==
    { [FOLDER |-> "p", NAME |-> "db"],
      [FOLDER |-> "q", NAME |-> "a_b"] }

\* The lists of at most n distinct connections, at least `least` long.
ConnectionLists(least, n) ==
    UNION { { c \in [1..k -> ConnectionPool] : \A i, j \in 1..k : c[i] = c[j] => i = j }
            : k \in least..n }

\* Objects a store may hold when a run starts, each with its age then.
Hour == 60 * 60
Day == 24 * Hour
PromotionPool ==
    { [name |-> "daily/p/db_2024-03-01.sql.gz", age |-> 2 * Hour],
      [name |-> "yearly/p/db_2024.sql.gz", age |-> 30 * Day],
      [name |-> "hourly/p/db_2024-02-20-053000.sql.gz", age |-> 10 * Day],
      [name |-> "hourly/q/a_b_2024-03-01-053000.sql.gz", age |-> 0],
      [name |-> "hourly/junk", age |-> 3 * Day] }

HouseKeepingPool ==
    { [name |-> "hourly/p/db_2024-02-28-053000.sql.gz", age |-> 48 * Hour],
      [name |-> "hourly/p/db_2024-02-28-050000.sql.gz", age |-> 48 * Hour + 1800],
      [name |-> "hourly/p/db_2024-02-28-043000.sql.gz", age |-> 49 * Hour],
      [name |-> "daily/p/db_2024-02-23.sql.gz", age |-> 7 * Day],
      [name |-> "daily/p/db_2024-02-22.sql.gz", age |-> 7 * Day + Hour],
      [name |-> "daily/q/a_b_2024-02-22.sql.gz", age |-> 8 * Day],
      [name |-> "monthly/p/db_2022-03.sql.gz", age |-> 720 * Day],
      [name |-> "monthly/p/db_2022-02.sql.gz", age |-> 720 * Day + Hour],
      [name |-> "monthly/p/db_2022-01.sql.gz", age |-> 721 * Day],
      [name |-> "yearly/p/db_2020.sql.gz", age |-> 1000 * Day],
      [name |-> "hourly/junk", age |-> 3 * Day],
      [name |-> "hourly-archive/x", age |-> 3 * Day],
      [name |-> "dailyreport.txt", age |-> 30 * Day],
      [name |-> "misc/x", age |-> 1000 * Day] }

\* The stores holding at most MaxObjects objects of a pool.
StoreOf(objects) ==
    [n \in {o.name : o \in objects} |->
        [last_modified |-> Seconds(Now0) - (CHOOSE o \in objects : o.name = n).age,
         data |-> NoData]]

Stores(pool) ==
    { StoreOf(objects) : objects \in {S \in SUBSET pool : Cardinality(S) <= MaxObjects} }

\* The state after Backuper(**vars(script_args)).
Start(orders, conn_lists, stores, environs) ==
    /\ overwrite \in BOOLEAN
    /\ dry_run \in BOOLEAN
    /\ now = Now0
    /\ dict_order \in orders
    /\ connections \in conn_lists
    /\ environ \in environs
    /\ store \in stores
    /\ pc = "main"
    /\ ci = 1
    /\ filenames = <<>>
    /\ fi = 0
    /\ dump = NoData
    /\ tier = 0
    /\ pending = <<>>
    /\ status = NoStatus
    /\ log = <<>>
    /\ store0 = store
    /\ run = 1

(***************************************************************************)
(* main(): the loop over connections, and create_dump.                     *)
(***************************************************************************)
\* for connection in backuper.connections: backuper.create_dump(connection),
\* up to the computation of filenames.
CreateDumpBegin ==
    /\ pc = "main"
    /\ ci <= Len(connections)
    /\ filenames' = create_dump_filenames(dict_order, now, connections[ci])
    /\ pc' = "check_output"
    /\ UNCHANGED << overwrite, dry_run, now, dict_order, connections, environ,
                    store, ci, fi, dump, tier, pending, status, log, store0, run >>

\* create_dump returns: main moves on to the next connection.
Return ==
    /\ pc' = "main"
    /\ ci' = ci + 1
    /\ filenames' = <<>>
    /\ fi' = 0
    /\ dump' = NoData

\* if not self.dry_run: check_output(dump_args, ...) is skipped.
CheckOutputDryRun ==
    /\ pc = "check_output"
    /\ dry_run
    /\ pc' = "create_object"
    /\ UNCHANGED << overwrite, dry_run, now, dict_order, connections, environ,
                    store, ci, filenames, fi, dump, tier, pending, status, log,
                    store0, run >>

\* check_output(dump_args, ...) returns: mysqldump exited with 0.
CheckOutputOk ==
    /\ pc = "check_output"
    /\ ~dry_run
    /\ dump' = [run |-> run, conn |-> ci]
    /\ log' = Append(log, Call("dump", connections[ci].NAME, "", TRUE))
    /\ pc' = "create_object"
    /\ UNCHANGED << overwrite, dry_run, now, dict_order, connections, environ,
                    store, ci, filenames, fi, tier, pending, status, store0, run >>

\* A check_output whose CalledProcessError no except clause catches.
CheckOutputRaises ==
    /\ pc = "check_output"
    /\ ~dry_run
    /\ log' = Append(log, Call("dump", connections[ci].NAME, "", FALSE))
    /\ pc' = "crashed"
    /\ UNCHANGED << overwrite, dry_run, now, dict_order, connections, environ,
                    store, ci, filenames, fi, dump, tier, pending, status,
                    store0, run >>

\* check_output raises CalledProcessError (mysqldump exited non-zero): the
\* except clause logs it and create_dump returns.
CheckOutputFails ==
    /\ pc = "check_output"
    /\ ~dry_run
    /\ log' = Append(log, Call("dump", connections[ci].NAME, "", FALSE))
    /\ Return
    /\ UNCHANGED << overwrite, dry_run, now, dict_order, connections, environ,
                    store, tier, pending, status, store0, run >>

\* if not self.dry_run: cloudfiles.create_object(...) is skipped.
CreateObjectDryRun ==
    /\ pc = "create_object"
    /\ dry_run
    /\ pc' = "promote"
    /\ fi' = 2
    /\ UNCHANGED << overwrite, dry_run, now, dict_order, connections, environ,
                    store, ci, filenames, dump, tier, pending, status, log,
                    store0, run >>

\* cloudfiles.create_object(container, obj_name=filenames[0], ...) succeeds.
CreateObjectOk ==
    /\ pc = "create_object"
    /\ ~dry_run
    /\ store' = StorePut(store, filenames[1], dump, Seconds(now))
    /\ log' = Append(log, Call("put", "", filenames[1], TRUE))
    /\ pc' = "promote"
    /\ fi' = 2
    /\ UNCHANGED << overwrite, dry_run, now, dict_order, connections, environ,
                    ci, filenames, dump, tier, pending, status, store0, run >>

\* cloudfiles.create_object raises: no except clause catches it, and the
\* process ends with the traceback.
CreateObjectFails ==
    /\ pc = "create_object"
    /\ ~dry_run
    /\ log' = Append(log, Call("put", "", filenames[1], FALSE))
    /\ pc' = "crashed"
    /\ UNCHANGED << overwrite, dry_run, now, dict_order, connections, environ,
                    store, ci, filenames, fi, dump, tier, pending, status,
                    store0, run >>

\* The log after the existence query of `if not self.overwrite:
\* cloudfiles.get_object(container, filename)`.
Queried(filename) ==
    IF overwrite THEN log ELSE Append(log, Call("get", filename, "", TRUE))

\* for filename in filenames[1:]: get_object finds the object, `continue`.
PromoteSkip ==
    /\ pc = "promote"
    /\ fi <= Len(filenames)
    /\ ~overwrite
    /\ filenames[fi] \in DOMAIN store
    /\ log' = Queried(filenames[fi])
    /\ fi' = fi + 1
    /\ UNCHANGED << overwrite, dry_run, now, dict_order, connections, environ,
                    store, pc, ci, filenames, dump, tier, pending, status,
                    store0, run >>

\* The copy is due: overwrite is set, or get_object raised NoSuchObject.
CopyDue ==
    /\ pc = "promote"
    /\ fi <= Len(filenames)
    /\ overwrite \/ filenames[fi] \notin DOMAIN store

\* if not self.dry_run: cloudfiles.copy_object(...) is skipped.
PromoteDryRun ==
    /\ CopyDue
    /\ dry_run
    /\ log' = Queried(filenames[fi])
    /\ fi' = fi + 1
    /\ UNCHANGED << overwrite, dry_run, now, dict_order, connections, environ,
                    store, pc, ci, filenames, dump, tier, pending, status,
                    store0, run >>

\* cloudfiles.copy_object(container, filenames[0], container, filename)
\* succeeds.
PromoteCopyOk ==
    /\ CopyDue
    /\ ~dry_run
    /\ store' = StorePut(store, filenames[fi], store[filenames[1]].data, Seconds(now))
    /\ log' = Append(Queried(filenames[fi]),
                     Call("copy", filenames[1], filenames[fi], TRUE))
    /\ fi' = fi + 1
    /\ UNCHANGED << overwrite, dry_run, now, dict_order, connections, environ,
                    pc, ci, filenames, dump, tier, pending, status, store0, run >>

\* cloudfiles.copy_object raises: no except clause catches it, and the
\* process ends with the traceback.
PromoteCopyFails ==
    /\ CopyDue
    /\ ~dry_run
    /\ log' = Append(Queried(filenames[fi]),
                     Call("copy", filenames[1], filenames[fi], FALSE))
    /\ pc' = "crashed"
    /\ UNCHANGED << overwrite, dry_run, now, dict_order, connections, environ,
                    store, ci, filenames, fi, dump, tier, pending, status,
                    store0, run >>

\* The loop over filenames[1:] is exhausted: create_dump returns.
CreateDumpEnd ==
    /\ pc = "promote"
    /\ fi > Len(filenames)
    /\ Return
    /\ UNCHANGED << overwrite, dry_run, now, dict_order, connections, environ,
                    store, tier, pending, status, log, store0, run >>

\* The loop over connections is exhausted: main calls house_keeping.
MainLoopEnd ==
    /\ pc = "main"
    /\ ci > Len(connections)
    /\ pc' = "house_keeping"
    /\ tier' = 1
    /\ UNCHANGED << overwrite, dry_run, now, dict_order, connections, environ,
                    store, ci, filenames, fi, dump, pending, status, log,
                    store0, run >>

(***************************************************************************)
(* house_keeping.                                                          *)
(***************************************************************************)
\* for obj in self.get_backup_objects(self.backups_<tier>_path): the list is
\* taken once, before the loop.
HouseKeepingList ==
    /\ pc = "house_keeping"
    /\ pending' = get_backup_objects(store, Seconds(now), HouseKeepingPaths[tier])
    /\ pc' = "inspect"
    /\ UNCHANGED << overwrite, dry_run, now, dict_order, connections, environ,
                    store, ci, filenames, fi, dump, tier, status, log, store0, run >>

\* The object is not older than the tier keeps: nothing is done.
InspectKeep ==
    /\ pc = "inspect"
    /\ pending # <<>>
    /\ ~IsOld(environ, tier, Head(pending))
    /\ pending' = Tail(pending)
    /\ UNCHANGED << overwrite, dry_run, now, dict_order, connections, environ,
                    store, pc, ci, filenames, fi, dump, tier, status, log,
                    store0, run >>

\* An inspection that deletes the old object although dry_run is set.
InspectDryRunDeletes ==
    /\ pc = "inspect"
    /\ pending # <<>>
    /\ IsOld(environ, tier, Head(pending))
    /\ dry_run
    /\ store' = StoreDelete(store, Head(pending).name)
    /\ pending' = Tail(pending)
    /\ UNCHANGED << overwrite, dry_run, now, dict_order, connections, environ,
                    pc, ci, filenames, fi, dump, tier, status, log, store0, run >>

\* The object is old; if not self.dry_run: obj.delete() is skipped.
InspectDryRun ==
    /\ pc = "inspect"
    /\ pending # <<>>
    /\ IsOld(environ, tier, Head(pending))
    /\ dry_run
    /\ pending' = Tail(pending)
    /\ UNCHANGED << overwrite, dry_run, now, dict_order, connections, environ,
                    store, pc, ci, filenames, fi, dump, tier, status, log,
                    store0, run >>

\* The object is old and obj.delete() succeeds.
InspectDeleteOk ==
    /\ pc = "inspect"
    /\ pending # <<>>
    /\ IsOld(environ, tier, Head(pending))
    /\ ~dry_run
    /\ store' = StoreDelete(store, Head(pending).name)
    /\ log' = Append(log, Call("delete", Head(pending).name, "", TRUE))
    /\ pending' = Tail(pending)
    /\ UNCHANGED << overwrite, dry_run, now, dict_order, connections, environ,
                    pc, ci, filenames, fi, dump, tier, status, store0, run >>

\* The object is old and obj.delete() raises: nothing catches it, and the
\* process ends with the traceback.
InspectDeleteFails ==
    /\ pc = "inspect"
    /\ pending # <<>>
    /\ IsOld(environ, tier, Head(pending))
    /\ ~dry_run
    /\ log' = Append(log, Call("delete", Head(pending).name, "", FALSE))
    /\ pc' = "crashed"
    /\ UNCHANGED << overwrite, dry_run, now, dict_order, connections, environ,
                    store, ci, filenames, fi, dump, tier, pending, status,
                    store0, run >>

\* A loop of house_keeping is exhausted: the next tier's loop starts.
HouseKeepingNext ==
    /\ pc = "inspect"
    /\ pending = <<>>
    /\ tier < Len(HouseKeepingPaths)
    /\ tier' = tier + 1
    /\ pc' = "house_keeping"
    /\ UNCHANGED << overwrite, dry_run, now, dict_order, connections, environ,
                    store, ci, filenames, fi, dump, pending, status, log,
                    store0, run >>

\* The last loop of house_keeping is exhausted: house_keeping returns.
HouseKeepingEnd ==
    /\ pc = "inspect"
    /\ pending = <<>>
    /\ tier = Len(HouseKeepingPaths)
    /\ pc' = "status"
    /\ UNCHANGED << overwrite, dry_run, now, dict_order, connections, environ,
                    store, ci, filenames, fi, dump, tier, pending, status, log,
                    store0, run >>

(***************************************************************************)
(* backup_status, as main calls it for its report.                         *)
(***************************************************************************)
BackupStatus ==
    /\ pc = "status"
    /\ status' = backup_status(store, Seconds(now))
    /\ pc' = "done"
    /\ UNCHANGED << overwrite, dry_run, now, dict_order, connections, environ,
                    store, ci, filenames, fi, dump, tier, pending, log,
                    store0, run >>

(***************************************************************************)
(* A later run of the script, on the store the earlier run left.           *)
(***************************************************************************)
NextRun ==
    /\ pc \in {"done", "crashed"}
    /\ run < MaxRuns
    /\ \E t \in Nows :
          /\ Seconds(t) > Seconds(now)
          /\ now' = t
    /\ overwrite' \in BOOLEAN
    /\ dry_run' \in BOOLEAN
    /\ run' = run + 1
    /\ pc' = "main"
    /\ ci' = 1
    /\ filenames' = <<>>
    /\ fi' = 0
    /\ dump' = NoData
    /\ tier' = 0
    /\ pending' = <<>>
    /\ status' = NoStatus
    /\ log' = <<>>
    /\ store0' = store
    /\ UNCHANGED << dict_order, connections, environ, store >>

(***************************************************************************)
(* Specifications.                                                         *)
(***************************************************************************)
CreateDump ==
    \/ CreateDumpBegin
    \/ CheckOutputDryRun
    \/ CheckOutputOk
    \/ CheckOutputFails
    \/ CreateObjectDryRun
    \/ CreateObjectOk
    \/ CreateObjectFails
    \/ PromoteSkip
    \/ PromoteDryRun
    \/ PromoteCopyOk
    \/ PromoteCopyFails
    \/ CreateDumpEnd

HouseKeeping ==
    \/ HouseKeepingList
    \/ InspectKeep
    \/ InspectDryRun
    \/ InspectDeleteOk
    \/ InspectDeleteFails
    \/ HouseKeepingNext
    \/ HouseKeepingEnd

\* One run of the script over one or more connections.
Init == Start(DictOrders, ConnectionLists(1, MaxConns), Stores(PromotionPool), {{}})
Next == CreateDump \/ MainLoopEnd \/ HouseKeeping \/ BackupStatus
Spec == Init /\ [][Next]_vars

\* One run with no database configured: house_keeping and backup_status on
\* the stores of HouseKeepingPool.
InitHouseKeeping ==
    Start({[i \in 1..4 |-> i]}, {<<>>}, Stores(HouseKeepingPool),
          {{}, {"hours_to_keep", "days_to_keep", "months_to_keep"}})
NextHouseKeeping == MainLoopEnd \/ HouseKeeping \/ BackupStatus
SpecHouseKeeping == InitHouseKeeping /\ [][NextHouseKeeping]_vars

\* Successive runs on a store that starts empty.
InitRuns == Start(DictOrders, ConnectionLists(1, 1), {StoreOf({})}, {{}})
NextRuns == Next \/ NextRun
SpecRuns == InitRuns /\ [][NextRuns]_vars

(***************************************************************************)
(* Vocabulary of the claims.                                               *)
(***************************************************************************)
\* The name create_dump derives for the k-th tier (1 hourly, 2 daily,
\* 3 monthly, 4 yearly) of a connection in this run.
TierKey(k, connection) ==
    format_str(FilenameFormats[k].path, connection.FOLDER, connection.NAME,
               strftime(now, FilenameFormats[k].strftime_format))

CoarseKeys(connection) == {TierKey(k, connection) : k \in 2..4}

\* The calls logged so far.
Calls == {log[i] : i \in DOMAIN log}

\* The name lies inside the path segment of house_keeping's t-th tier.
InsideTier(name, t) == startswith(name, HouseKeepingPaths[t] \o "/")

\* The name begins with the string house_keeping's t-th tier is called.
BeginsWithTier(name, t) == startswith(name, HouseKeepingPaths[t])

\* The age an object of the run's initial store had when the run started.
Age0(name) == Seconds(now) - store0[name].last_modified

\* max_age of the t-th tier under the default settings, in seconds.
DefaultMaxAge(t) ==
    CASE t = 1 -> DefaultHoursToKeep * Hour
      [] t = 2 -> DefaultDaysToKeep * Day
      [] t = 3 -> DefaultMonthsToKeep * 30 * Day

\* house_keeping has returned.
Pruned == pc \in {"status", "done"}

(***************************************************************************)
(* C1: after a house_keeping pass that is no dry run, under the default    *)
(* settings, an object inside the hourly, daily or monthly tier is gone    *)
(* exactly when its age now - last_modified is strictly greater than the   *)
(* tier's max_age (48 h, 7 d, 24 * 30 d): at max_age it stays, at max_age  *)
(* plus any positive amount (48 h 30 min, 7 d 1 h) it is deleted.          *)
(* The code compares whole hours and whole days, so this is violated.      *)
(***************************************************************************)
C1_DeletedExactlyWhenOlderThanMaxAge ==
    (Pruned /\ ~dry_run /\ environ = {}) =>
        \A t \in 1..3 : \A name \in DOMAIN store0 :
            InsideTier(name, t) =>
                (name \notin DOMAIN store <=> Age0(name) > DefaultMaxAge(t))

C3_DeletesOnlyInsideTierPaths ==
    \A c \in Calls :
        c.op = "delete" => \E t \in 1..3 : InsideTier(c.src, t)

(***************************************************************************)
(* C4: with overwrite unset, no copy goes to a daily, monthly or yearly    *)
(* name the store held when the run started; and when the store already    *)
(* held all three coarser names of a connection (an earlier run of the     *)
(* same day, month and year made them), the run issues no copy for that    *)
(* connection and leaves the three objects as they were.                   *)
(* When the dict yields another item than the hourly one first (C11), the  *)
(* dump is uploaded to a coarser name and copied from there: violated.     *)
(***************************************************************************)
C4_SecondRunCopiesNothing ==
    ~overwrite =>
        \A j \in DOMAIN connections :
            LET coarse == CoarseKeys(connections[j])
                own == coarse \cup {TierKey(1, connections[j])}
            IN  /\ \A c \in Calls :
                      (c.op = "copy" /\ c.dst \in coarse) => c.dst \notin DOMAIN store0
                /\ coarse \subseteq DOMAIN store0 =>
                      /\ \A c \in Calls : c.op = "copy" => c.dst \notin own
                      /\ \A k \in coarse : k \in DOMAIN store /\ store[k] = store0[k]

(***************************************************************************)
(* C5: with overwrite set and no dry run, a create_dump whose dump and     *)
(* upload succeeded has, when its loop ends, copied the hourly object to   *)
(* each of the daily, monthly and yearly names, and has not queried the    *)
(* store for the existence of any object.                                  *)
(* When the dict yields another item than the hourly one first (C11), the  *)
(* source of the copies is a coarser object: violated.                     *)
(***************************************************************************)
C5_OverwriteCopiesHourlyToEveryCoarseKey ==
    (overwrite /\ ~dry_run /\ pc = "promote" /\ fi > Len(filenames)) =>
        /\ \A k \in CoarseKeys(connections[ci]) :
              Call("copy", TierKey(1, connections[ci]), k, TRUE) \in Calls
        /\ \A c \in Calls : c.op # "get"

(***************************************************************************)
(* C6: a copy that fails during promotion does not end the run: the        *)
(* remaining coarser tiers, the later connections and house_keeping still  *)
(* follow, so the process is never ended with a failed copy in its log.    *)
(* create_dump catches CalledProcessError only, so this is violated.       *)
(***************************************************************************)
C6_CopyFailureDoesNotAbort ==
    \A c \in Calls :
        (c.op = "copy" /\ ~c.ok) => pc # "crashed"

(***************************************************************************)
(* C7: when the dump of a connection exits non-zero, nothing is uploaded   *)
(* or copied for that connection in that run, and the failure does not     *)
(* stop the run: the process never ends on it (it ends early only on a     *)
(* failed call to the store), right after it main stands at the next       *)
(* connection or at house_keeping, and once main has left its loop every   *)
(* configured connection has had its dump attempted, house_keeping         *)
(* following.                                                              *)
(***************************************************************************)
C7_DumpFailureIsIsolated ==
    /\ \A j \in DOMAIN connections :
          Call("dump", connections[j].NAME, "", FALSE) \in Calls =>
              \A c \in Calls :
                  c.op \in {"put", "copy"} =>
                      /\ c.dst \notin {TierKey(k, connections[j]) : k \in 1..4}
                      /\ c.src \notin {TierKey(k, connections[j]) : k \in 1..4}
    /\ pc = "crashed" =>
          (log # <<>> /\ log[Len(log)].op \in {"put", "copy", "delete"} /\ ~log[Len(log)].ok)
    /\ (log # <<>> /\ log[Len(log)].op = "dump" /\ ~log[Len(log)].ok) =>
          /\ pc \notin {"crashed", "create_object", "promote"}
          /\ ci > 1
          /\ connections[ci - 1].NAME = log[Len(log)].src
    /\ (~dry_run /\ pc \in {"house_keeping", "inspect", "status", "done"}) =>
          \A j \in DOMAIN connections :
              \E c \in Calls : c.op = "dump" /\ c.src = connections[j].NAME

\* A run is over in which the dump of one connection failed, the dump of a
\* later connection succeeded and was uploaded, and house_keeping deleted
\* an object.
C7_Witness ==
    /\ pc = "done"
    /\ \E i, j, k, l \in DOMAIN log :
          /\ i < j /\ j < k /\ k < l
          /\ log[i].op = "dump" /\ ~log[i].ok
          /\ log[j].op = "dump" /\ log[j].ok
          /\ log[k].op = "put" /\ log[k].ok
          /\ log[l].op = "delete" /\ log[l].ok

(***************************************************************************)
(* C8: with dry_run set, a run (create_dump for every connection, then     *)
(* house_keeping) performs no dump and issues no put, copy or delete: the  *)
(* only calls are existence queries, and the stored objects and their      *)
(* contents are at every moment those the run started with, whatever       *)
(* overwrite and the initial store are.                                    *)
(***************************************************************************)
C8_DryRunLeavesStoreUnchanged ==
    dry_run =>
        /\ store = store0
        /\ \A c \in Calls : c.op = "get"

\* A dry run over at least one connection is over, with overwrite set (so
\* every copy was due), on a store holding an hourly object that a real
\* run would have deleted.
C8_Witness ==
    /\ dry_run
    /\ overwrite
    /\ pc = "done"
    /\ connections # <<>>
    /\ \E name \in DOMAIN store :
          /\ InsideTier(name, 1)
          /\ Age0(name) > DefaultMaxAge(1) + Hour

(***************************************************************************)
(* C9: every name create_dump derives from format_str for a tier, a folder *)
(* and a connection's database name is parsed back by format_re into that  *)
(* tier, folder and database name, the timestamp being the formatted       *)
(* string; this for every database name without "/", those with "_"        *)
(* included.                                                               *)
(* format_re ends the database group at the first "_", so this is violated *)
(* by the database name "a_b".                                             *)
(***************************************************************************)
C9_KeysRoundTrip ==
    filenames # <<>> =>
        \A i \in DOMAIN filenames :
            LET match == format_re(filenames[i])
                item == FilenameFormats[dict_order[i]]
            IN  /\ match.matched
                /\ match.frequency = item.path
                /\ match.folder = connections[ci].FOLDER
                /\ match.database = connections[ci].NAME
                /\ match.timestamp = strftime(now, item.strftime_format)

(***************************************************************************)
(* C10: backup_status returns an entry for exactly the (folder, database)  *)
(* pairs that have a parsable name in the store; the entry holds one list  *)
(* per tier of the pair, containing exactly the stored objects of that     *)
(* folder, database and tier, once each, newest first; an object whose     *)
(* name does not match format_re is in no list; and the store is the one   *)
(* house_keeping left.                                                     *)
(***************************************************************************)
Parsable == {name \in DOMAIN store : format_re(name).matched}

GroupOf(name) == format_re(name).folder \o "/" \o format_re(name).database

C10_StatusListsStoredObjectsNewestFirst ==
    pc = "done" =>
        /\ DOMAIN status = {GroupOf(name) : name \in Parsable}
        /\ \A g \in DOMAIN status :
              /\ DOMAIN status[g] \ {"objects"} =
                     {format_re(name).frequency : name \in {n \in Parsable : GroupOf(n) = g}}
              /\ \A f \in DOMAIN status[g] \ {"objects"} :
                    LET list == status[g][f]
                        expected == {n \in Parsable :
                                        GroupOf(n) = g /\ format_re(n).frequency = f}
                    IN  /\ {list[i].name : i \in DOMAIN list} = expected
                        /\ Len(list) = Cardinality(expected)
                        /\ \A i \in DOMAIN list :
                              list[i].last_modified_timestamp =
                                  store[list[i].name].last_modified
                        /\ \A i, j \in DOMAIN list :
                              i < j => list[i].last_modified_timestamp
                                           >= list[j].last_modified_timestamp
              /\ \A k \in DOMAIN status[g] : \A i \in DOMAIN status[g][k] :
                    status[g][k][i].name \in Parsable
        /\ LET deleted == {c.src : c \in {d \in Calls : d.op = "delete" /\ d.ok}}
           IN  store = [name \in DOMAIN store0 \ deleted |-> store0[name]]

\* backup_status has returned a tier list of two objects or more with
\* different timestamps, on a store that also holds an unparsable name.
C10_Witness ==
    /\ pc = "done"
    /\ \E name \in DOMAIN store : ~format_re(name).matched
    /\ \E g \in DOMAIN status : \E f \in DOMAIN status[g] \ {"objects"} :
          /\ Len(status[g][f]) >= 2
          /\ status[g][f][1].last_modified_timestamp
                 > status[g][f][2].last_modified_timestamp

(***************************************************************************)
(* C11: in a create_dump that is no dry run and whose dump succeeds, the   *)
(* one object uploaded goes to the connection's hourly name, before any    *)
(* copy for that connection; every copy has that hourly name as its source *)
(* and the connection's daily, monthly or yearly name as its destination,  *)
(* and the copies come in the order daily, monthly, yearly; a coarser name *)
(* is never the upload target nor a copy source.                           *)
(* filenames[0] is the first item of a dict, whose order Python 2 leaves   *)
(* to the implementation: it need not be the hourly name, so this is       *)
(* violated.                                                               *)
(***************************************************************************)
TierOf(name, connection) ==
    IF \E k \in 1..4 : TierKey(k, connection) = name
    THEN CHOOSE k \in 1..4 : TierKey(k, connection) = name
    ELSE 0

C11_UploadsHourlyThenCopiesInTierOrder ==
    \A i \in DOMAIN log :
        /\ log[i].op = "put" =>
              \E j \in DOMAIN connections : log[i].dst = TierKey(1, connections[j])
        /\ log[i].op = "copy" =>
              \E j \in DOMAIN connections :
                  /\ log[i].src = TierKey(1, connections[j])
                  /\ log[i].dst \in CoarseKeys(connections[j])
                  /\ \E h \in 1..(i - 1) :
                        /\ log[h].op = "put"
                        /\ log[h].ok
                        /\ log[h].dst = log[i].src
                  /\ \A h \in 1..(i - 1) :
                        (log[h].op = "copy" /\ log[h].src = log[i].src) =>
                            TierOf(log[h].dst, connections[j])
                                < TierOf(log[i].dst, connections[j])
====
